---- MODULE Spec2Model ----
(***************************************************************************)
(* Reno: the Release Note Generator (Form Editor, pages/release_note_     *)
(* generator.py and its predecessor app.py) and the Release Note          *)
(* Consolidator (Collator, pages/release_consolidator.py).                *)
(*                                                                         *)
(* Python values are tagged records: [t |-> "str", v |-> <<chars>>],      *)
(* [t |-> "bool", v], [t |-> "num", v], [t |-> "null"], [t |-> "list",    *)
(* v |-> <<values>>], [t |-> "date", year, month, day] and                *)
(* [t |-> "dict", keys |-> <<k1, ...>>, val |-> [k |-> value]]: a dict    *)
(* keeps its insertion order in keys.  A character is a TLA+ string; a    *)
(* word such as "Low" or "config_only" is one character of the alphabet,  *)
(* and a dict key is one such character.                                  *)
(***************************************************************************)
EXTENDS Integers, Sequences, FiniteSets, TLC

\* ------------------------------------------------------------------------
\* Bounds of the model
\* ------------------------------------------------------------------------

\* user events (edit, click) per Form Editor session
MaxEvents == 2
\* lines of one text pasted into the Collator
MaxLines == 3
\* identifiers the Collator issues in one session
MaxIds == 3
\* characters of a text of links
MaxText == 5

\* ------------------------------------------------------------------------
\* Characters
\* ------------------------------------------------------------------------

NL == "\n"
SP == " "
QUOTE == "\""
BACKSLASH == "\\"

\* The characters of every text of the model; a character's byte is its
\* position here (str.encode / bytes.decode).
Alphabet ==
  << "{", "}", "[", "]", ":", ",", QUOTE, BACKSLASH, SP, NL,
     "true", "false", "null", "5", "n",
     "release_date", "contact", "services",
     "config_only", "risk_level", "benefit_level", "version", "known_issues",
     "change_description", "pr_links", "design_links", "code_quality_links",
     "additional_links",
     "Low", "Medium", "High", "Critical", "Alice", "Bob",
     "Billing", "Search", "Legacy",
     "2024", "2023", "-", "01", "02", "03", "29", "30", "not-a-date",
     "a", "b", "v1" >>

B64Chars ==
  << "A", "B", "C", "D", "E", "F", "G", "H", "I", "J", "K", "L", "M",
     "N", "O", "P", "Q", "R", "S", "T", "U", "V", "W", "X", "Y", "Z",
     "a", "b", "c", "d", "e", "f", "g", "h", "i", "j", "k", "l", "m",
     "n", "o", "p", "q", "r", "s", "t", "u", "v", "w", "x", "y", "z",
     "0", "1", "2", "3", "4", "5", "6", "7", "8", "9", "+", "/" >>

PAD == "="

Range(s) == { s[i] : i \in DOMAIN s }

IndexIn(tab, c) == CHOOSE i \in DOMAIN tab : tab[i] = c

Min(S) == CHOOSE i \in S : \A j \in S : i <= j

\* ------------------------------------------------------------------------
\* Python values
\* ------------------------------------------------------------------------

PyStr(s) == [t |-> "str", v |-> s]
PyBool(b) == [t |-> "bool", v |-> b]
PyNum(n) == [t |-> "num", v |-> n]
PyNone == [t |-> "null"]
PyList(xs) == [t |-> "list", v |-> xs]
PyDate(y, m, d) == [t |-> "date", year |-> y, month |-> m, day |-> d]
PyDict(ks, f) == [t |-> "dict", keys |-> ks, val |-> f]
EmptyDict == PyDict(<<>>, <<>>)

\* a word as a str
W(c) == PyStr(<<c>>)

IsDict(x) == x.t = "dict"

\* k in d
HasKey(d, k) == k \in Range(d.keys)

\* d.get(k, default)
DictGet(d, k, default) == IF HasKey(d, k) THEN d.val[k] ELSE default

\* d[k] = x
DictSet(d, k, x) ==
  IF HasKey(d, k)
    THEN PyDict(d.keys, [d.val EXCEPT ![k] = x])
    ELSE PyDict(Append(d.keys, k), [j \in Range(d.keys) \cup {k} |-> IF j = k THEN x ELSE d.val[j]])

\* a dict literal {k1: x1, ...} from its pairs
RECURSIVE DictOf(_)
DictOf(pairs) ==
  IF pairs = <<>> THEN EmptyDict
  ELSE DictSet(DictOf(SubSeq(pairs, 1, Len(pairs) - 1)),
               pairs[Len(pairs)][1], pairs[Len(pairs)][2])

\* ------------------------------------------------------------------------
\* str methods
\* ------------------------------------------------------------------------

IsSpace(c) == c \in {SP, NL}

\* the first index from i up, the last from i down, that holds no whitespace
RECURSIVE FirstInk(_, _)
FirstInk(s, i) == IF i <= Len(s) /\ IsSpace(s[i]) THEN FirstInk(s, i + 1) ELSE i

RECURSIVE LastInk(_, _)
LastInk(s, i) == IF i >= 1 /\ IsSpace(s[i]) THEN LastInk(s, i - 1) ELSE i

\* str.strip()
strip(s) == SubSeq(s, FirstInk(s, 1), LastInk(s, Len(s)))

\* str.splitlines(): no empty last line after a final line break
splitlines(s) ==
  LET idx == [i \in DOMAIN s |-> i]
      IsBreak(i) == s[i] = NL
      brk == SelectSeq(idx, IsBreak)
      start(k) == IF k = 1 THEN 1 ELSE brk[k - 1] + 1
      ended == [k \in DOMAIN brk |-> SubSeq(s, start(k), brk[k] - 1)]
      last == start(Len(brk) + 1)
  IN IF last <= Len(s) THEN Append(ended, SubSeq(s, last, Len(s))) ELSE ended

\* sep.join(items), sep one character
RECURSIVE join(_, _)
join(sep, items) ==
  IF items = <<>> THEN <<>>
  ELSE IF Len(items) = 1 THEN items[1]
  ELSE join(sep, SubSeq(items, 1, Len(items) - 1)) \o <<sep>> \o items[Len(items)]

\* ------------------------------------------------------------------------
\* Exceptions: a call returns Ok(value) or Raise
\* ------------------------------------------------------------------------

Ok(x) == [ok |-> TRUE, v |-> x]
Raise == [ok |-> FALSE]

\* ------------------------------------------------------------------------
\* str.encode, bytes.decode, base64
\* ------------------------------------------------------------------------

\* str.encode(): one byte per character
encode(s) == [i \in DOMAIN s |-> IndexIn(Alphabet, s[i])]

\* bytes.decode(): UnicodeDecodeError on a byte that is no character
decode(b) ==
  IF \A i \in DOMAIN b : b[i] \in DOMAIN Alphabet
    THEN Ok([i \in DOMAIN b |-> Alphabet[b[i]]])
    ELSE Raise

ByteOr0(b, k) == IF k <= Len(b) THEN b[k] ELSE 0

\* the 24 bits of the g-th group of 3 bytes (g from 0)
Triple(b, g) ==
  ByteOr0(b, 3 * g + 1) * 65536 + ByteOr0(b, 3 * g + 2) * 256 + ByteOr0(b, 3 * g + 3)

Sextet(b, g, p) ==
  CASE p = 0 -> Triple(b, g) \div 262144
    [] p = 1 -> (Triple(b, g) \div 4096) % 64
    [] p = 2 -> (Triple(b, g) \div 64) % 64
    [] OTHER -> Triple(b, g) % 64

\* the p-th character (p from 0) of the g-th group: "=" where no byte is left
B64Char(b, g, p) ==
  IF p >= 2 /\ 3 * g + p > Len(b) THEN PAD ELSE B64Chars[Sextet(b, g, p) + 1]

\* an encoder that leaves the "=" padding out
b64encode_unpadded(b) ==
  [j \in 1..((4 * Len(b) + 2) \div 3) |-> B64Char(b, (j - 1) \div 4, (j - 1) % 4)]

\* base64.b64encode(b).decode(): 3 bytes to 4 characters, "=" padded
b64encode(b) ==
  [j \in 1..(4 * ((Len(b) + 2) \div 3)) |-> B64Char(b, (j - 1) \div 4, (j - 1) % 4)]

IsB64Data(c) == c \in Range(B64Chars)
IsB64(c) == IsB64Data(c) \/ c = PAD

\* how many data characters of a quad precede the i-th character
Quad(c, i) == Len(SelectSeq(SubSeq(c, 1, i - 1), IsB64Data)) % 4

\* a "=" that completes a quad: the first after 3 data characters, the
\* second after 2
IsStop(c, i) ==
  /\ c[i] = PAD
  /\ Quad(c, i) >= 2
  /\ Quad(c, i) = 3 \/ (i > 1 /\ c[i - 1] = PAD)

Stops(c) == { i \in DOMAIN c : IsStop(c, i) }

\* the data characters before the first stop (all of them when there is none)
DataBefore(c, stops) ==
  SelectSeq(SubSeq(c, 1, IF stops = {} THEN Len(c) ELSE Min(stops) - 1), IsB64Data)

Sextets(data) == [i \in DOMAIN data |-> IndexIn(B64Chars, data[i]) - 1]

SixAt(q, k) == IF k <= Len(q) THEN q[k] ELSE 0

QuadAt(q, g) ==
  SixAt(q, 4 * g + 1) * 262144 + SixAt(q, 4 * g + 2) * 4096
  + SixAt(q, 4 * g + 3) * 64 + SixAt(q, 4 * g + 4)

ByteAt(q, k) ==
  CASE (k - 1) % 3 = 0 -> QuadAt(q, (k - 1) \div 3) \div 65536
    [] (k - 1) % 3 = 1 -> (QuadAt(q, (k - 1) \div 3) \div 256) % 256
    [] OTHER -> QuadAt(q, (k - 1) \div 3) % 256

\* 3 bytes a full quad, 1 or 2 bytes a quad cut short by "="
ByteCount(m) == 3 * (m \div 4) + (IF m % 4 = 0 THEN 0 ELSE (m % 4) - 1)

\* binascii.Error when the data characters left over fill no quad
BytesOf(q, stopped) ==
  IF ~stopped /\ Len(q) % 4 # 0 THEN Raise
  ELSE Ok([k \in 1..ByteCount(Len(q)) |-> ByteAt(q, k)])

DecodeQuads(c, stops) == BytesOf(Sextets(DataBefore(c, stops)), stops # {})

DecodeClean(c) == DecodeQuads(c, Stops(c))

\* base64.b64decode(s) (binascii.a2b_base64, not strict): characters outside
\* the alphabet are skipped; decoding stops at a "=" that completes a quad;
\* "=" elsewhere is skipped
b64decode(s) == DecodeClean(SelectSeq(s, IsB64))

\* ------------------------------------------------------------------------
\* json.dumps(obj, indent=2)
\* ------------------------------------------------------------------------

RECURSIVE Concat(_)
Concat(parts) ==
  IF parts = <<>> THEN <<>>
  ELSE Concat(SubSeq(parts, 1, Len(parts) - 1)) \o parts[Len(parts)]

\* a string's characters, escaped
EscapeChar(c) ==
  CASE c = QUOTE -> <<BACKSLASH, QUOTE>>
    [] c = BACKSLASH -> <<BACKSLASH, BACKSLASH>>
    [] c = NL -> <<BACKSLASH, "n">>
    [] OTHER -> <<c>>

DumpStr(s) == <<QUOTE>> \o Concat([i \in DOMAIN s |-> EscapeChar(s[i])]) \o <<QUOTE>>

\* a line break and the indentation of a nesting depth (indent=2)
Indent(depth) == <<NL>> \o [i \in 1..(2 * depth) |-> SP]

RECURSIVE Dump(_, _)
Dump(x, depth) ==
  CASE x.t = "str" -> DumpStr(x.v)
    [] x.t = "bool" -> IF x.v THEN <<"true">> ELSE <<"false">>
    [] x.t = "null" -> <<"null">>
    [] x.t = "num" -> <<"5">>
    [] x.t = "list" ->
         IF x.v = <<>> THEN <<"[", "]">>
         ELSE <<"[">>
              \o Concat([i \in DOMAIN x.v |->
                           (IF i > 1 THEN <<",">> ELSE <<>>)
                           \o Indent(depth + 1) \o Dump(x.v[i], depth + 1)])
              \o Indent(depth) \o <<"]">>
    [] x.t = "dict" ->
         IF x.keys = <<>> THEN <<"{", "}">>
         ELSE <<"{">>
              \o Concat([i \in DOMAIN x.keys |->
                           (IF i > 1 THEN <<",">> ELSE <<>>)
                           \o Indent(depth + 1)
                           \o <<QUOTE, x.keys[i], QUOTE, ":", SP>>
                           \o Dump(x.val[x.keys[i]], depth + 1)])
              \o Indent(depth) \o <<"}">>

json_dumps(x) == Dump(x, 0)

\* ------------------------------------------------------------------------
\* json.loads(text)
\* ------------------------------------------------------------------------

\* a parse step returns [ok |-> TRUE, v |-> value, next |-> index] or Raise
Parsed(x, i) == [ok |-> TRUE, v |-> x, next |-> i]

\* the first index from i on that holds no whitespace (Len(t) + 1 if none)
SkipWs(t, i) == FirstInk(t, i)

\* the characters of a string from i (after its opening quote) to its
\* closing quote; a raw line break in a string is an error
RECURSIVE ParseString(_, _, _)
ParseString(t, i, acc) ==
  IF i > Len(t) THEN Raise
  ELSE IF t[i] = QUOTE THEN Parsed(acc, i + 1)
  ELSE IF t[i] = NL THEN Raise
  ELSE IF t[i] = BACKSLASH THEN
    IF i + 1 > Len(t) THEN Raise
    ELSE IF t[i + 1] = "n" THEN ParseString(t, i + 2, Append(acc, NL))
    ELSE IF t[i + 1] \in {QUOTE, BACKSLASH} THEN ParseString(t, i + 2, Append(acc, t[i + 1]))
    ELSE Raise
  ELSE ParseString(t, i + 1, Append(acc, t[i]))

RECURSIVE ParseValue(_, _)
RECURSIVE ParseItems(_, _, _)
RECURSIVE ParseMembers(_, _, _)

ParseValue(t, i) ==
  LET j == SkipWs(t, i)
  IN IF j > Len(t) THEN Raise
     ELSE CASE t[j] = QUOTE ->
                 LET r == ParseString(t, j + 1, <<>>)
                 IN IF r.ok THEN Parsed(PyStr(r.v), r.next) ELSE Raise
            [] t[j] = "true" -> Parsed(PyBool(TRUE), j + 1)
            [] t[j] = "false" -> Parsed(PyBool(FALSE), j + 1)
            [] t[j] = "null" -> Parsed(PyNone, j + 1)
            [] t[j] = "5" -> Parsed(PyNum(5), j + 1)
            [] t[j] = "[" ->
                 LET k == SkipWs(t, j + 1)
                 IN IF k <= Len(t) /\ t[k] = "]" THEN Parsed(PyList(<<>>), k + 1)
                    ELSE ParseItems(t, k, <<>>)
            [] t[j] = "{" ->
                 LET k == SkipWs(t, j + 1)
                 IN IF k <= Len(t) /\ t[k] = "}" THEN Parsed(EmptyDict, k + 1)
                    ELSE ParseMembers(t, k, EmptyDict)
            [] OTHER -> Raise

\* the items of a list from i to its "]"
ParseItems(t, i, acc) ==
  LET r == ParseValue(t, i)
  IN IF ~r.ok THEN Raise
     ELSE LET k == SkipWs(t, r.next)
          IN IF k > Len(t) THEN Raise
             ELSE IF t[k] = "," THEN ParseItems(t, k + 1, Append(acc, r.v))
             ELSE IF t[k] = "]" THEN Parsed(PyList(Append(acc, r.v)), k + 1)
             ELSE Raise

\* the members of an object from i to its "}"; a key of the model is one
\* character; a repeated key keeps its place and takes the last value
ParseMembers(t, i, acc) ==
  LET j == SkipWs(t, i)
  IN IF j > Len(t) \/ t[j] # QUOTE THEN Raise
     ELSE LET key == ParseString(t, j + 1, <<>>)
          IN IF ~key.ok \/ Len(key.v) # 1 THEN Raise
             ELSE LET c == SkipWs(t, key.next)
                  IN IF c > Len(t) \/ t[c] # ":" THEN Raise
                     ELSE LET r == ParseValue(t, c + 1)
                          IN IF ~r.ok THEN Raise
                             ELSE LET k == SkipWs(t, r.next)
                                      d == DictSet(acc, key.v[1], r.v)
                                  IN IF k > Len(t) THEN Raise
                                     ELSE IF t[k] = "," THEN ParseMembers(t, k + 1, d)
                                     ELSE IF t[k] = "}" THEN Parsed(d, k + 1)
                                     ELSE Raise

\* json.loads(text): JSONDecodeError on anything but one value
json_loads(t) ==
  LET r == ParseValue(t, 1)
  IN IF r.ok /\ SkipWs(t, r.next) > Len(t) THEN Ok(r.v) ELSE Raise


\* ------------------------------------------------------------------------
\* datetime.date
\* ------------------------------------------------------------------------

YearOf == [c \in {"2023", "2024"} |-> IF c = "2023" THEN 2023 ELSE 2024]

TwoDigits == <<"01", "02", "03", "29", "30">>

NumberOf == [c \in Range(TwoDigits) |->
               CASE c = "01" -> 1 [] c = "02" -> 2 [] c = "03" -> 3
                 [] c = "29" -> 29 [] OTHER -> 30]

IsLeap(y) == (y % 4 = 0 /\ y % 100 # 0) \/ y % 400 = 0

DaysInMonth(y, m) ==
  IF m = 2 THEN (IF IsLeap(y) THEN 29 ELSE 28)
  ELSE IF m \in {4, 6, 9, 11} THEN 30 ELSE 31

\* date.fromisoformat(s): YYYY-MM-DD; from Python 3.11 on also YYYYMMDD
\* (basic says which Python runs); ValueError otherwise
fromisoformat(s, basic) ==
  LET parts == IF Len(s) = 5 /\ s[2] = "-" /\ s[4] = "-" THEN <<s[1], s[3], s[5]>>
               ELSE IF basic /\ Len(s) = 3 THEN s
               ELSE <<>>
  IN IF parts = <<>> THEN Raise
     ELSE IF ~(parts[1] \in DOMAIN YearOf /\ parts[2] \in DOMAIN NumberOf
               /\ parts[3] \in DOMAIN NumberOf) THEN Raise
     ELSE LET y == YearOf[parts[1]]
              m == NumberOf[parts[2]]
              d == NumberOf[parts[3]]
          IN IF m <= 12 /\ d <= DaysInMonth(y, m) THEN Ok(PyDate(y, m, d)) ELSE Raise

\* date.isoformat()
isoformat(d) ==
  << CHOOSE c \in DOMAIN YearOf : YearOf[c] = d.year, "-",
     CHOOSE c \in DOMAIN NumberOf : NumberOf[c] = d.month, "-",
     CHOOSE c \in DOMAIN NumberOf : NumberOf[c] = d.day >>

\* date.today()
Today == PyDate(2023, 1, 2)

\* ------------------------------------------------------------------------
\* config.toml and the form's fields
\* ------------------------------------------------------------------------

\* config["contacts"]["names"], config["services"]["names"]
ContactNames == <<"Alice", "Bob">>
ServiceNames == <<"Billing", "Search">>

RiskLevels == <<"Low", "Medium", "High">>

\* the two Form Editor scripts
Pages == {"app", "generator"}

LinkFields == {"pr_links", "design_links", "code_quality_links", "additional_links"}
LevelFields == {"risk_level", "benefit_level"}

\* the per-service widgets of a page, in the order the script builds them
WidgetFields(pg) ==
  IF pg = "generator"
    THEN <<"config_only", "change_description", "risk_level", "benefit_level",
           "version", "known_issues", "pr_links", "design_links",
           "code_quality_links", "additional_links">>
    ELSE <<"config_only", "risk_level", "pr_links", "design_links",
           "code_quality_links", "additional_links">>

\* the keys of form_data["services"][svc], in the order of the dict literal
EntryFields(pg) ==
  IF pg = "generator"
    THEN <<"config_only", "risk_level", "benefit_level", "version", "known_issues",
           "change_description", "pr_links", "design_links", "code_quality_links",
           "additional_links">>
    ELSE <<"config_only", "risk_level", "pr_links", "design_links",
           "code_quality_links", "additional_links">>

\* defaults that take the middle level for a level that is absent
HydrateDefaultMedium(f) ==
  CASE f = "config_only" -> PyBool(FALSE)
    [] f \in LevelFields -> W("Medium")
    [] f \in LinkFields -> PyList(<<>>)
    [] OTHER -> PyStr(<<>>)

\* the default of details.get(field, default) in the rehydration loop
HydrateDefault(f) ==
  CASE f = "config_only" -> PyBool(FALSE)
    [] f \in LevelFields -> W("Low")
    [] f \in LinkFields -> PyList(<<>>)
    [] OTHER -> PyStr(<<>>)

\* the value of a widget that has no slot yet
Unset(f) ==
  CASE f = "config_only" -> PyBool(FALSE)
    [] f \in LevelFields -> W(RiskLevels[1])
    [] OTHER -> PyStr(<<>>)

\* f"{svc}_{field}"
SlotKey(svc, f) == svc \o "_" \o f

\* ------------------------------------------------------------------------
\* st.session_state: a dict from keys to values
\* ------------------------------------------------------------------------

Has(ss, k) == k \in DOMAIN ss
Put(ss, k, x) == (k :> x) @@ ss
Del(ss, keys) == [k \in DOMAIN ss \ keys |-> ss[k]]
NoSlots == [k \in {} |-> PyNone]

\* a parser that keeps the blank lines
parse_links_unfiltered(text) ==
  [i \in DOMAIN splitlines(text) |-> strip(splitlines(text)[i])]

\* _parse_links(text)
LinkLine(l) == strip(l) # <<>>
parse_links(text) ==
  LET kept == SelectSeq(splitlines(text), LinkLine)
  IN [i \in DOMAIN kept |-> strip(kept[i])]


\* ------------------------------------------------------------------------
\* Form Editor: the deferred base64 load (rehydration)
\* ------------------------------------------------------------------------

\* the fields the rehydration loop writes for one service
HydratedFields(pg) ==
  IF pg = "generator"
    THEN {"config_only", "risk_level", "benefit_level", "version", "known_issues",
          "pr_links", "change_description", "design_links", "code_quality_links",
          "additional_links"}
    ELSE {"config_only", "risk_level", "pr_links", "design_links",
          "code_quality_links", "additional_links"}

\* " ".join(details.get(field, [])): the links on one line
JoinedBySpace(details, f) ==
  LET links == DictGet(details, f, PyList(<<>>))
  IN PyStr(join(SP, [i \in DOMAIN links.v |-> links.v[i].v]))

\* "\n".join(details.get(field, []))
JoinedLinks(details, f) ==
  LET links == DictGet(details, f, HydrateDefault(f))
  IN PyStr(join(NL, [i \in DOMAIN links.v |-> links.v[i].v]))

\* what the loop body stores in st.session_state[f"{svc}_{field}"]
HydratedValue(details, f) ==
  IF f \in LinkFields THEN JoinedLinks(details, f)
  ELSE DictGet(details, f, HydrateDefault(f))

\* one iteration of the loop over services_loaded.items()
HydrateService(ss, svc, details, pg) ==
  LET keys == { SlotKey(svc, f) : f \in HydratedFields(pg) }
      field(k) == CHOOSE f \in HydratedFields(pg) : SlotKey(svc, f) = k
  IN [k \in DOMAIN ss \cup keys |->
        IF k \in keys THEN HydratedValue(details, field(k)) ELSE ss[k]]

\* the loop, from the i-th item on; details.get raises on what is no dict
RECURSIVE HydrateServices(_, _, _, _)
HydrateServices(ss, services_loaded, i, pg) ==
  IF i > Len(services_loaded.keys) THEN [ok |-> TRUE, ss |-> ss]
  ELSE LET svc == services_loaded.keys[i]
           details == services_loaded.val[svc]
       IN IF ~IsDict(details) THEN [ok |-> FALSE, ss |-> ss]
          ELSE HydrateServices(HydrateService(ss, svc, details, pg),
                               services_loaded, i + 1, pg)

\* a "release_date" step that empties the slot of a date that does not parse
HydrateDateOrClear(ss, loaded, basic) ==
  IF ~HasKey(loaded, "release_date") THEN ss
  ELSE LET x == loaded.val["release_date"]
           d == IF x.t = "str" THEN fromisoformat(x.v, basic) ELSE Raise
       IN IF d.ok THEN Put(ss, "release_date", d.v) ELSE Del(ss, {"release_date"})

\* the "release_date" step: a date that does not parse is skipped
HydrateDate(ss, loaded, basic) ==
  IF ~HasKey(loaded, "release_date") THEN ss
  ELSE LET x == loaded.val["release_date"]
           d == IF x.t = "str" THEN fromisoformat(x.v, basic) ELSE Raise
       IN IF d.ok THEN Put(ss, "release_date", d.v) ELSE ss

\* a "contact" step that falls back on the first configured contact
HydrateContactOrFirst(ss, loaded) ==
  Put(ss, "contact", DictGet(loaded, "contact", W(ContactNames[1])))

\* the "contact" step
HydrateContact(ss, loaded) ==
  IF HasKey(loaded, "contact") THEN Put(ss, "contact", loaded.val["contact"]) ELSE ss

IsConfigured(k) == k \in Range(ServiceNames)

\* a list of the keys that are configured services, the others dropped
ConfiguredKeyList(d) ==
  PyList([i \in DOMAIN SelectSeq(d.keys, IsConfigured) |->
            W(SelectSeq(d.keys, IsConfigured)[i])])

\* list(services_loaded.keys())
KeyList(d) == PyList([i \in DOMAIN d.keys |-> W(d.keys[i])])

\* the block under `if "pending_load" in st.session_state`, after the pop:
\* [ok, ss]; not ok is an exception that ends the script run
Hydrate(ss, loaded, pg, basic) ==
  IF ~IsDict(loaded) THEN [ok |-> FALSE, ss |-> ss]
  ELSE LET s2 == HydrateContact(HydrateDate(ss, loaded, basic), loaded)
           services_loaded == DictGet(loaded, "services", EmptyDict)
       IN IF ~IsDict(services_loaded) THEN [ok |-> FALSE, ss |-> s2]
          ELSE HydrateServices(Put(s2, "selected_services", KeyList(services_loaded)),
                               services_loaded, 1, pg)

\* ------------------------------------------------------------------------
\* Form Editor: widgets and form_data
\* ------------------------------------------------------------------------

\* A widget built with key k takes its value from st.session_state[k] and
\* registers its default there when the slot is unset.
Register(ss, k, default) == IF Has(ss, k) THEN ss ELSE Put(ss, k, default)

\* A select widget whose slot holds a value outside its options: Streamlit
\* either raises or shows the value, depending on its version (strict).
InOptions(x, options) == x.t = "str" /\ Len(x.v) = 1 /\ x.v[1] \in Range(options)

AllInOptions(xs, options) == \A i \in DOMAIN xs.v : InOptions(xs.v[i], options)

\* the widgets of one service tab from the i-th on: [ok, ss]
RECURSIVE BuildWidgets(_, _, _, _, _)
BuildWidgets(ss, svc, fields, i, strict) ==
  IF i > Len(fields) THEN [ok |-> TRUE, ss |-> ss]
  ELSE LET k == SlotKey(svc, fields[i])
           s1 == Register(ss, k, Unset(fields[i]))
       IN IF fields[i] \in LevelFields /\ strict /\ ~InOptions(s1[k], RiskLevels)
            THEN [ok |-> FALSE, ss |-> ss]
            ELSE BuildWidgets(s1, svc, fields, i + 1, strict)

\* form_data["services"][svc] = {...}
ServiceEntry(ss, svc, pg) ==
  LET fs == EntryFields(pg)
      value(f) == IF f \in LinkFields
                    THEN LET links == parse_links(ss[SlotKey(svc, f)].v)
                         IN PyList([i \in DOMAIN links |-> PyStr(links[i])])
                    ELSE ss[SlotKey(svc, f)]
  IN PyDict(fs, [f \in Range(fs) |-> value(f)])

\* the loop over selected_services from the i-th on: [ok, ss, services]
RECURSIVE BuildTabs(_, _, _, _, _, _)
BuildTabs(ss, selected, i, services, pg, strict) ==
  IF i > Len(selected) THEN [ok |-> TRUE, ss |-> ss, services |-> services]
  ELSE LET svc == selected[i].v[1]
           w == BuildWidgets(ss, svc, WidgetFields(pg), 1, strict)
       IN IF ~w.ok THEN [ok |-> FALSE, ss |-> w.ss, services |-> services]
          ELSE BuildTabs(w.ss, selected, i + 1,
                         DictSet(services, svc, ServiceEntry(w.ss, svc, pg)), pg, strict)


\* ------------------------------------------------------------------------
\* Records and texts a user pastes
\* ------------------------------------------------------------------------

\* "Export to base64": base64.b64encode(json_str.encode()).decode()
Portable(x) == b64encode(encode(json_dumps(x)))

Links(items) == PyList([i \in DOMAIN items |-> PyStr(items[i])])

\* the service entry of the specification's example
SpecEntry ==
  DictOf(<< <<"config_only", PyBool(TRUE)>>, <<"risk_level", W("High")>>,
            <<"pr_links", Links(<< <<"a">>, <<"b">> >>)>> >>)

FullEntry ==
  DictOf(<< <<"config_only", PyBool(FALSE)>>, <<"risk_level", W("Medium")>>,
            <<"benefit_level", W("High")>>, <<"version", W("v1")>>,
            <<"known_issues", PyStr(<<"a", NL, "b">>)>>,
            <<"change_description", W("b")>>,
            <<"pr_links", Links(<< <<"a">> >>)>>, <<"design_links", Links(<<>>)>>,
            <<"code_quality_links", Links(<< <<"b">>, <<"a">> >>)>>,
            <<"additional_links", Links(<<>>)>> >>)

AppEntry ==
  DictOf(<< <<"config_only", PyBool(TRUE)>>, <<"risk_level", W("Low")>>,
            <<"pr_links", Links(<< <<"b">> >>)>>, <<"design_links", Links(<< <<"a">> >>)>>,
            <<"code_quality_links", Links(<<>>)>>, <<"additional_links", Links(<<>>)>> >>)

\* link items that are blank, padded with spaces, or hold a line break
UntrimmedEntry ==
  DictOf(<< <<"config_only", PyBool(FALSE)>>, <<"risk_level", W("Low")>>,
            <<"pr_links", Links(<< <<SP, "a">>, <<>>, <<"b">> >>)>>,
            <<"design_links", Links(<< <<"a", NL, "b">> >>)>>,
            <<"code_quality_links", Links(<<>>)>>, <<"additional_links", Links(<<>>)>> >>)

Record(date, contact, services) ==
  DictOf(<< <<"release_date", PyStr(date)>>, <<"contact", W(contact)>>,
            <<"services", DictOf(services)>> >>)

RecSpec == Record(<<"2024", "-", "03", "-", "01">>, "Alice", << <<"Billing", SpecEntry>> >>)
RecFull == Record(<<"2024", "-", "02", "-", "29">>, "Bob", << <<"Search", FullEntry>> >>)
RecTwo == Record(<<"2024", "-", "03", "-", "01">>, "Bob",
                 << <<"Search", AppEntry>>, <<"Billing", FullEntry>> >>)
RecBadDate == Record(<<"not-a-date">>, "Bob", << <<"Billing", AppEntry>> >>)
RecNoSuchDay == Record(<<"2023", "-", "02", "-", "29">>, "Alice", << <<"Search", SpecEntry>> >>)
RecBasicDate == Record(<<"2024", "03", "01">>, "Alice", << <<"Billing", AppEntry>> >>)
RecUntrimmed == Record(<<"2024", "-", "03", "-", "01">>, "Alice",
                       << <<"Billing", UntrimmedEntry>> >>)
RecBare == Record(<<"2023", "-", "01", "-", "02">>, "Alice", << <<"Billing", EmptyDict>> >>)
RecLegacy == Record(<<"2024", "-", "03", "-", "01">>, "Alice", << <<"Legacy", AppEntry>> >>)
RecCritical == Record(<<"2024", "-", "03", "-", "01">>, "Alice",
                      << <<"Billing", DictOf(<< <<"risk_level", W("Critical")>> >>)>> >>)
RecServicesOnly == DictOf(<< <<"services", DictOf(<< <<"Search", SpecEntry>> >>)>> >>)

\* JSON objects a user may paste into the Form Editor
Records ==
  { RecSpec, RecFull, RecTwo, RecBadDate, RecNoSuchDay, RecBasicDate, RecUntrimmed,
    RecBare, RecLegacy, RecCritical, RecServicesOnly, EmptyDict }

\* JSON values that are no object: a number, a string, a list, null
NonObjects == { PyNum(5), W("a"), PyList(<<W("contact")>>), PyNone }

\* texts that are no base64 of JSON: data characters that fill no quad,
\* bytes that are no text, text that is no JSON, nothing at all
BadPadding == <<"D", "g", "A">>
NotText == <<"A", "A", "=", "=">>
NotJson == b64encode(encode(<<"{", QUOTE, "a", QUOTE>>))
Malformed == { BadPadding, NotText, NotJson, <<>> }

Pasted == { Portable(x) : x \in Records \cup NonObjects } \cup Malformed

\* a record of a service that is not configured
Tiny == DictOf(<< <<"services", DictOf(<< <<"Legacy", EmptyDict>> >>)>> >>)

\* the lines of a text a user pastes into the Collator's sidebar: a record
\* padded with spaces, a number, a text that is no base64, a blank line
LineTexts ==
  { <<SP>> \o Portable(Tiny) \o <<SP>>, Portable(PyNum(5)), BadPadding, <<SP>> }

\* texts of at most MaxLines lines
RawInputs ==
  { join(NL, ls) : ls \in UNION { [1..n -> LineTexts] : n \in 1..MaxLines } }

TextOf(raw) == IF raw.ok THEN decode(raw.v) ELSE Raise

JsonOf(decoded) == IF decoded.ok THEN json_loads(decoded.v) ELSE Raise

\* base64.b64decode(s).decode() and json.loads of it; any exception of the
\* three calls is Raise
Base64Json(s) == JsonOf(TextOf(b64decode(s)))

\* Base64Json of the texts above, computed once
Decoded == [s \in Pasted \cup { strip(l) : l \in LineTexts } |-> Base64Json(s)]

Tabulated(s) == IF s \in DOMAIN Decoded THEN Decoded[s] ELSE Base64Json(s)


\* ------------------------------------------------------------------------
\* State
\* ------------------------------------------------------------------------

VARIABLES
  page,           \* the Form Editor script of this session: "app" or "generator"
  session_state,  \* st.session_state of the Form Editor
  pc,             \* where the script run stands; "idle" between runs
  clicked,        \* the button whose click started this run
  loaded,         \* the script's variable loaded (None when not assigned)
  form_data,      \* the script's variable form_data (None when not assigned)
  built,          \* the keys of the input widgets this run has built
  messages,       \* what this run has shown: "error" (st.error), "exception"
  export_b64,     \* the text "Export to base64" shows (None when not shown)
  events,         \* user events so far
  release_notes,  \* st.session_state["release_notes"] of the Collator
  issued,         \* how many identifiers uuid4 has returned
  input_b64_sidebar,  \* the text area "Paste Base64 here" of the Collator
  note_id,        \* the note whose remove button was clicked (0 when none)
  notices,        \* what the last Collator handler has shown
  notes_list,     \* which list object the slot "release_notes" holds: 0 or 1
  held,           \* what the list object holds now that was in the slot when
                  \* the last handler began
  link_text,      \* the argument text of _parse_links
  link_items      \* what _parse_links returned for it (None before the call)

formVars == <<page, session_state, pc, clicked, loaded, form_data, built, messages,
              export_b64, events>>
collVars == <<release_notes, issued, input_b64_sidebar, note_id, notices,
              notes_list, held>>
linkVars == <<link_text, link_items>>
vars == <<formVars, collVars, linkVars>>

\* ------------------------------------------------------------------------
\* Form Editor: one script run, top to bottom
\* ------------------------------------------------------------------------

\* a script run begins: its variables are unassigned, nothing is shown
StartRun(click) ==
  /\ pc' = "rehydrate"
  /\ clicked' = click
  /\ loaded' = PyNone
  /\ form_data' = PyNone
  /\ built' = {}
  /\ messages' = {}
  /\ export_b64' = PyNone

\* an uncaught exception ends the run
Abort ==
  /\ pc' = "idle"
  /\ messages' = messages \cup {"exception"}

\* a script that reads pending_load and leaves it in place
Peeked(ss) == ss

\* st.session_state.pop("pending_load"): the state without the slot
Popped(ss) == Del(ss, {"pending_load"})

\* `if "pending_load" in st.session_state:`, the first statement after the
\* configuration is read
RehydratePendingLoad ==
  /\ pc = "rehydrate"
  /\ IF Has(session_state, "pending_load")
       THEN \E basic \in BOOLEAN :
              LET r == Hydrate(Popped(session_state),
                               session_state["pending_load"], page, basic)
              IN /\ loaded' = session_state["pending_load"]
                 /\ session_state' = r.ss
                 /\ IF r.ok THEN pc' = "clear" /\ messages' = messages ELSE Abort
       ELSE /\ pc' = "clear"
            /\ UNCHANGED <<loaded, session_state, messages>>
  /\ UNCHANGED <<page, clicked, form_data, built, export_b64, events, collVars, linkVars>>

\* `if st.button("Clear Form"):` deletes every key
ClearFormButton ==
  /\ pc = "clear"
  /\ session_state' = IF clicked = "clear" THEN NoSlots ELSE session_state
  /\ pc' = "basic"
  /\ UNCHANGED <<page, clicked, loaded, form_data, built, messages, export_b64,
                 events, collVars, linkVars>>

\* the date input, the contact select box and the services multiselect:
\* [ok, ss, built]
BasicWidgets(ss, strict) ==
  LET s1 == Register(ss, "release_date", Today)
      s2 == Register(s1, "contact", W(ContactNames[1]))
      s3 == Register(s2, "selected_services", PyList(<<>>))
  IN IF strict /\ ~InOptions(s2["contact"], ContactNames)
       THEN [ok |-> FALSE, ss |-> s1, built |-> {"release_date"}]
     ELSE IF strict /\ ~AllInOptions(s3["selected_services"], ServiceNames)
       THEN [ok |-> FALSE, ss |-> s2, built |-> {"release_date", "contact"}]
     ELSE [ok |-> TRUE, ss |-> s3,
           built |-> {"release_date", "contact", "selected_services"}]

\* form_data = {"release_date": ..., "contact": contact, "services": {}}
FormHead(ss) ==
  DictOf(<< <<"release_date", PyStr(isoformat(ss["release_date"]))>>,
            <<"contact", ss["contact"]>>,
            <<"services", EmptyDict>> >>)

BasicInputs ==
  /\ pc = "basic"
  /\ \E strict \in BOOLEAN :
       LET w == BasicWidgets(session_state, strict)
       IN /\ session_state' = w.ss
          /\ built' = w.built
          /\ IF w.ok
               THEN /\ form_data' = FormHead(w.ss)
                    /\ pc' = "services"
                    /\ messages' = messages
               ELSE /\ form_data' = form_data
                    /\ Abort
  /\ UNCHANGED <<page, clicked, loaded, export_b64, events, collVars, linkVars>>

\* the widget keys of the selected services' tabs
TabKeys(selected, pg) ==
  { SlotKey(selected[i].v[1], f) : i \in DOMAIN selected, f \in Range(WidgetFields(pg)) }

\* `for tab, svc in zip(tabs, selected_services):`
ServiceTabs ==
  /\ pc = "services"
  /\ \E strict \in BOOLEAN :
       LET selected == session_state["selected_services"].v
           r == BuildTabs(session_state, selected, 1, EmptyDict, page, strict)
       IN /\ session_state' = r.ss
          /\ IF r.ok
               THEN /\ form_data' = DictSet(form_data, "services", r.services)
                    /\ built' = built \cup TabKeys(selected, page)
                    /\ pc' = "export"
                    /\ messages' = messages
               ELSE /\ form_data' = form_data
                    /\ built' = built
                    /\ Abort
  /\ UNCHANGED <<page, clicked, loaded, export_b64, events, collVars, linkVars>>

\* the body of the try in "Load from base64", up to json.loads
LoadedFrom(input_b64) == Tabulated(input_b64)

\* a handler that sets pending_load and reruns whatever the decoding gave
LoadAlways(ss) == [ss |-> Put(ss, "pending_load", PyNone), rerun |-> TRUE]

\* `if st.button("Load from base64"):` [ss, rerun]: the decoded data goes to
\* pending_load and the script reruns, or st.error shows the exception
LoadFromBase64(ss) ==
  LET data == LoadedFrom(ss["input_b64"].v)
  IN IF data.ok THEN [ss |-> Put(ss, "pending_load", data.v), rerun |-> TRUE]
     ELSE [ss |-> ss, rerun |-> FALSE]

\* the JSON view and the two columns: export, paste and load
ExportImport ==
  /\ pc = "export"
  /\ LET s1 == Register(session_state, "input_b64", PyStr(<<>>))
         r == LoadFromBase64(s1)
     IN IF clicked = "load"
          THEN /\ session_state' = r.ss
               /\ IF r.rerun
                    THEN StartRun("none")
                    ELSE /\ pc' = "idle"
                         /\ messages' = messages \cup {"error"}
                         /\ built' = built \cup {"input_b64"}
                         /\ UNCHANGED <<clicked, loaded, form_data, export_b64>>
          ELSE /\ session_state' = s1
               /\ pc' = "idle"
               /\ built' = built \cup {"input_b64"}
               /\ export_b64' = IF clicked = "export"
                                  THEN PyStr(Portable(form_data)) ELSE export_b64
               /\ UNCHANGED <<clicked, loaded, form_data, messages>>
  /\ UNCHANGED <<page, events, collVars, linkVars>>

\* ------------------------------------------------------------------------
\* Form Editor: what the user does between runs
\* ------------------------------------------------------------------------

SelectionChoices ==
  { PyList(<<>>), PyList(<<W("Search")>>), PyList(<<W("Billing"), W("Search")>>) }

\* the new values a user may give the widget with key k
EditChoices(k) ==
  CASE k = "contact" -> { W(c) : c \in Range(ContactNames) }
    [] k = "release_date" -> { PyDate(2024, 2, 29) }
    [] k = "selected_services" -> SelectionChoices
    [] k \in { SlotKey(svc, "config_only") : svc \in Range(ServiceNames) } ->
         { PyBool(TRUE) }
    [] k \in { SlotKey(svc, "risk_level") : svc \in Range(ServiceNames) } ->
         { W("High") }
    [] k \in { SlotKey(svc, "pr_links") : svc \in Range(ServiceNames) } ->
         { PyStr(<<SP, "a", NL, NL, "b", SP, NL>>) }
    [] OTHER -> {}

\* the user changes a widget's value: Streamlit stores it and reruns
UserEdits ==
  /\ pc = "idle"
  /\ events < MaxEvents
  /\ \E k \in built : \E x \in EditChoices(k) :
       /\ session_state[k] # x
       /\ session_state' = Put(session_state, k, x)
  /\ events' = events + 1
  /\ StartRun("none")
  /\ UNCHANGED <<page, collVars, linkVars>>

\* the user clicks "Clear Form" or "Export to base64"
UserClicks ==
  /\ pc = "idle"
  /\ events < MaxEvents
  /\ "input_b64" \in built
  /\ \E b \in {"clear", "export"} : StartRun(b)
  /\ events' = events + 1
  /\ UNCHANGED <<page, session_state, collVars, linkVars>>

\* the user pastes a text and clicks "Load from base64"
UserLoads ==
  /\ pc = "idle"
  /\ events < MaxEvents
  /\ "input_b64" \in built
  /\ \E text \in Pasted : session_state' = Put(session_state, "input_b64", PyStr(text))
  /\ events' = events + 1
  /\ StartRun("load")
  /\ UNCHANGED <<page, collVars, linkVars>>

\* the user reruns the script (after an exception nothing else is shown)
UserReruns ==
  /\ pc = "idle"
  /\ events < MaxEvents
  /\ events' = events + 1
  /\ StartRun("none")
  /\ UNCHANGED <<page, session_state, collVars, linkVars>>

FormInit ==
  /\ page \in Pages
  /\ session_state = NoSlots
  /\ pc = "rehydrate"
  /\ clicked = "none"
  /\ loaded = PyNone
  /\ form_data = PyNone
  /\ built = {}
  /\ messages = {}
  /\ export_b64 = PyNone
  /\ events = 0

CollInit ==
  /\ release_notes = <<>>
  /\ issued = 0
  /\ input_b64_sidebar = <<>>
  /\ note_id = 0
  /\ notices = {}
  /\ notes_list = 0
  /\ held = <<>>

\* no text of links is being parsed
LinkIdle ==
  /\ link_text = <<>>
  /\ link_items = PyNone

Init == FormInit /\ CollInit /\ LinkIdle

Next ==
  \/ RehydratePendingLoad
  \/ ClearFormButton
  \/ BasicInputs
  \/ ServiceTabs
  \/ ExportImport
  \/ UserEdits
  \/ UserClicks
  \/ UserLoads
  \/ UserReruns

\* the Form Editor
Spec == Init /\ [][Next]_vars


\* ------------------------------------------------------------------------
\* Collator
\* ------------------------------------------------------------------------

\* _decode_b64_to_json(b64_str): ValueError on any exception of the three calls
decode_b64_to_json(b64_str) == Tabulated(b64_str)

\* a generator that returns one identifier over and over
uuid_fixed(n) == 1

\* str(uuid.uuid4()) when n identifiers were returned before: a new one
uuid4(n) == n + 1

\* {"id": ..., "data": data}
NewNote(id, data) == [id |-> id, data |-> data]

\* [line.strip() for line in raw_input.splitlines() if line.strip()]
NonBlank(l) == strip(l) # <<>>

Stripped(kept) == [i \in DOMAIN kept |-> strip(kept[i])]

B64Strings(raw) == Stripped(SelectSeq(splitlines(raw), NonBlank))

\* a loop body that gives up after the first line that fails to decode
AddUntilFailure(st, data) ==
  IF data.ok /\ st.failures = 0
    THEN [st EXCEPT !.notes = Append(@, [id |-> st.issued + 1, data |-> data.v]),
                    !.issued = st.issued + 1,
                    !.successes = @ + 1]
    ELSE [st EXCEPT !.failures = @ + 1]

\* the body of the loop for a line that decoded to data, or did not; st is
\* [notes, issued, successes, failures]
AddOne(st, data) ==
  IF data.ok
    THEN [st EXCEPT !.notes = Append(@, NewNote(uuid4(st.issued), data.v)),
                    !.issued = uuid4(st.issued),
                    !.successes = @ + 1]
    ELSE [st EXCEPT !.failures = @ + 1]

\* `for b64 in b64_strings:` from the i-th on
RECURSIVE AddEach(_, _, _)
AddEach(st, b64_strings, i) ==
  IF i > Len(b64_strings) THEN st
  ELSE AddEach(AddOne(st, decode_b64_to_json(b64_strings[i])), b64_strings, i + 1)

Shown(kind, n) == IF n > 0 THEN {[kind |-> kind, n |-> n]} ELSE {}

\* st.success and st.error after the loop; the text area is cleared
Report(st) ==
  [notes |-> st.notes, issued |-> st.issued, input |-> <<>>,
   notices |-> Shown("success", st.successes) \cup Shown("error", st.failures)]

\* _on_add_click with raw_input in the text area: [notes, issued, input, notices]
on_add_click(notes, n, raw_input) ==
  IF strip(raw_input) = <<>>
    THEN [notes |-> notes, issued |-> n, input |-> raw_input,
          notices |-> {[kind |-> "warning", n |-> 0]}]
    ELSE Report(AddEach([notes |-> notes, issued |-> n, successes |-> 0, failures |-> 0],
                        B64Strings(raw_input), 1))

\* a removal by position: the first card goes, whatever was clicked
remove_first(notes, id) == SubSeq(notes, 2, Len(notes))

\* [n for n in st.session_state["release_notes"] if n["id"] != note_id]
remove(notes, id) ==
  LET Other(n) == n.id # id
  IN SelectSeq(notes, Other)

\* list(data.get("services", {}).keys()): the services a card lists
service_names(data) == DictGet(data, "services", EmptyDict).keys

\* The cards are drawn in order; data.get raises on data that is no dict and
\* ends the run, so a remove button is built for the notes before the first
\* such note only.
RemoveButtons(notes) ==
  { notes[i].id : i \in { i \in DOMAIN notes : \A j \in 1..i : IsDict(notes[j].data) } }

\* the user types a text into the empty text area; the page is drawn again
UserPastes ==
  /\ input_b64_sidebar = <<>>
  /\ \E raw \in RawInputs : input_b64_sidebar' = raw
  /\ note_id' = 0
  /\ notices' = {}
  /\ held' = release_notes
  /\ UNCHANGED <<release_notes, issued, notes_list, formVars, linkVars>>

Added(r) ==
  /\ r.issued <= MaxIds
  /\ release_notes' = r.notes
  /\ issued' = r.issued
  /\ input_b64_sidebar' = r.input
  /\ notices' = r.notices

\* the user clicks "Add to Consolidator": .append works on the list object
\* that the slot holds, and the slot goes on holding it
AddToConsolidator ==
  /\ Added(on_add_click(release_notes, issued, input_b64_sidebar))
  /\ note_id' = 0
  /\ held' = release_notes'
  /\ UNCHANGED <<notes_list, formVars, linkVars>>

\* st.session_state["release_notes"] = notes, for a list notes just built:
\* the slot holds another list object, and the one it held is left as it was
Assign(notes) ==
  /\ release_notes' = notes
  /\ notes_list' = 1 - notes_list
  /\ held' = release_notes

\* a handler that empties the list object the slot holds (.clear())
ClearInPlace ==
  /\ release_notes' = <<>>
  /\ input_b64_sidebar' = <<>>
  /\ note_id' = 0
  /\ notices' = {}
  /\ held' = <<>>
  /\ UNCHANGED <<issued, notes_list, formVars, linkVars>>

\* _on_clear_click
ClearConsolidator ==
  /\ Assign(<<>>)
  /\ input_b64_sidebar' = <<>>
  /\ note_id' = 0
  /\ notices' = {}
  /\ UNCHANGED <<issued, formVars, linkVars>>

\* the user clicks the remove button of a card
RemoveNote ==
  /\ \E id \in RemoveButtons(release_notes) :
       /\ note_id' = id
       /\ Assign(remove(release_notes, id))
  /\ notices' = {}
  /\ UNCHANGED <<issued, input_b64_sidebar, formVars, linkVars>>

CollNext ==
  \/ UserPastes
  \/ AddToConsolidator
  \/ ClearConsolidator
  \/ RemoveNote

\* the Collator
CollatorSpec == Init /\ [][CollNext]_vars


\* ------------------------------------------------------------------------
\* Properties of the Form Editor
\* ------------------------------------------------------------------------

\* a script run has come to its end without an exception
Completed == pc = "idle" /\ "exception" \notin messages /\ form_data # PyNone

Services(rec) == rec.val["services"]

\* a dict with the three top-level fields, whose services are dicts
IsRecord(rec) ==
  /\ IsDict(rec)
  /\ \A k \in {"release_date", "contact", "services"} : HasKey(rec, k)
  /\ IsDict(Services(rec))
  /\ \A svc \in Range(Services(rec).keys) : IsDict(Services(rec).val[svc])

Configured(rec) == \A svc \in Range(Services(rec).keys) : svc \in Range(ServiceNames)

ValidEnums(rec) ==
  \A svc \in Range(Services(rec).keys) : \A f \in {"risk_level", "benefit_level"} :
    HasKey(Services(rec).val[svc], f)
      => InOptions(Services(rec).val[svc].val[f], RiskLevels)

\* every field the given entry holds is in the shown entry, with the same value
SameEntry(shown, given) ==
  \A f \in Range(given.keys) : HasKey(shown, f) /\ shown.val[f] = given.val[f]

Reproduces(form, rec) ==
  /\ form.val["release_date"] = rec.val["release_date"]
  /\ form.val["contact"] = rec.val["contact"]
  /\ Services(form).keys = Services(rec).keys
  /\ \A svc \in Range(Services(rec).keys) :
       SameEntry(Services(form).val[svc], Services(rec).val[svc])

\* release_date is a calendar date written YYYY-MM-DD
IsoDate(rec) ==
  /\ rec.val["release_date"].t = "str"
  /\ fromisoformat(rec.val["release_date"].v, FALSE).ok

\* a link that is not blank, has no space around it and no line break in it
CleanItem(x) ==
  /\ x.t = "str"
  /\ x.v # <<>>
  /\ ~IsSpace(x.v[1])
  /\ ~IsSpace(x.v[Len(x.v)])
  /\ NL \notin Range(x.v)

CleanLinks(rec) ==
  \A svc \in Range(Services(rec).keys) : \A f \in LinkFields :
    HasKey(Services(rec).val[svc], f)
      => \A i \in DOMAIN Services(rec).val[svc].val[f].v :
           CleanItem(Services(rec).val[svc].val[f].v[i])

\* the record's service entries hold only fields the page has widgets for
KnownFields(rec, pg) ==
  \A svc \in Range(Services(rec).keys) :
    Range(Services(rec).val[svc].keys) \subseteq Range(EntryFields(pg))

\* the run that unpacked the record `loaded` has come to its end
Rehydrated == Completed /\ loaded # PyNone /\ IsRecord(loaded)

\* C1, as stated: after a load of a record whose services are configured and
\* whose levels are valid, and the rerun that follows, form_data has the
\* record's release_date, contact, service keys in order and service fields.
C1_AsStated ==
  (Rehydrated /\ Configured(loaded) /\ ValidEnums(loaded))
    => Reproduces(form_data, loaded)

\* C1, amended: the same, for records whose release_date is a calendar date
\* written YYYY-MM-DD, whose links are non-blank, trimmed and free of line
\* breaks, and whose service fields are fields of the page that loads them.
C1_Rehydration ==
  (Rehydrated /\ Configured(loaded) /\ ValidEnums(loaded)
     /\ IsoDate(loaded) /\ CleanLinks(loaded) /\ KnownFields(loaded, page))
    => Reproduces(form_data, loaded)

\* the specification's example record, loaded and shown
C1_Witness ==
  Rehydrated /\ page = "generator" /\ loaded = RecSpec /\ Reproduces(form_data, loaded)

\* the slots of the form: all but the holding slot and the paste area
FormSlots(ss) == Del(ss, {"pending_load", "input_b64"})

\* the pasted text decodes: the three calls of the handler's try raise nothing
PastedDecodes == Tabulated(session_state["input_b64"].v).ok

\* C2: pending_load is set (and a rerun started) only by "Load from base64"
\* with a pasted text that decodes; when the text does not decode,
\* pending_load is not set, no form slot changes, the run ends and an error is
\* shown.
C2_LoadOnlyOnDecode ==
  [][ /\ (Has(session_state', "pending_load") /\ ~Has(session_state, "pending_load"))
           => /\ pc = "export" /\ clicked = "load"
              /\ PastedDecodes
              /\ pc' = "rehydrate"
      /\ (pc = "export" /\ clicked = "load" /\ ~PastedDecodes)
           => /\ ~Has(session_state', "pending_load")
              /\ FormSlots(session_state') = FormSlots(session_state)
              /\ pc' = "idle"
              /\ "error" \in messages' ]_vars

\* a load of a text that does not decode has ended with an error
C2_Witness ==
  /\ pc = "idle" /\ clicked = "load" /\ "error" \in messages
  /\ ~Tabulated(session_state["input_b64"].v).ok
  /\ ~Has(session_state, "pending_load")

\* C3: a run that starts with pending_load empties the holding slot and
\* unpacks the record before it builds a widget, so no widget is built while
\* pending_load is present, and the slot stays empty for the rest of the run.
C3_UnpackedBeforeWidgets ==
  [][ /\ (pc = "rehydrate" /\ Has(session_state, "pending_load"))
           => /\ built = {} /\ built' = {}
              /\ ~Has(session_state', "pending_load")
              /\ loaded' = session_state["pending_load"]
              /\ (IsDict(loaded') /\ HasKey(loaded', "contact"))
                   => session_state'["contact"] = loaded'.val["contact"]
      /\ (built' # {} /\ built' # built)
           => ~Has(session_state, "pending_load") /\ ~Has(session_state', "pending_load")
      /\ (built # {} /\ pc' # "rehydrate") => ~Has(session_state', "pending_load") ]_vars

\* a record was unpacked and the widgets of that run are built
C3_Witness ==
  loaded # PyNone /\ "contact" \in built /\ ~Has(session_state, "pending_load")

\* C4, as stated: a pasted text that is base64 of JSON that is no object does
\* not decode, so pending_load never holds anything but an object.
C4_RejectsNonObjects ==
  Has(session_state, "pending_load") => IsDict(session_state["pending_load"])

\* C5: the text "Export to base64" shows decodes to form_data, field for
\* field.
C5_RoundTrip ==
  export_b64 # PyNone => Base64Json(export_b64.v) = Ok(form_data)

\* a loaded record with a line break in a text field was exported
C5_Witness ==
  export_b64 # PyNone /\ form_data = RecFull

\* the value of the entry's field in the slot the loop writes
SlotOf(entry, f) ==
  IF f \in LinkFields
    THEN PyStr(join(NL, [i \in DOMAIN entry.val[f].v |-> entry.val[f].v[i].v]))
    ELSE entry.val[f]

Unparseable(x) == x.t # "str" \/ \A basic \in BOOLEAN : ~fromisoformat(x.v, basic).ok

\* the run is about to unpack a record
Unpacking ==
  pc = "rehydrate" /\ Has(session_state, "pending_load")
    /\ IsRecord(session_state["pending_load"])

\* C9: unpacking a record whose release_date is no ISO calendar date leaves
\* the release_date slot as it was, shows no error, and writes contact,
\* selected_services and every service field of the record.
C9_BadDateSkipped ==
  [][ (Unpacking /\ Unparseable(session_state["pending_load"].val["release_date"]))
        => LET rec == session_state["pending_load"]
           IN /\ Has(session_state', "release_date") = Has(session_state, "release_date")
              /\ Has(session_state, "release_date")
                   => session_state'["release_date"] = session_state["release_date"]
              /\ messages' = messages
              /\ pc' = "clear"
              /\ session_state'["contact"] = rec.val["contact"]
              /\ session_state'["selected_services"]
                   = PyList([i \in DOMAIN Services(rec).keys |->
                               PyStr(<<Services(rec).keys[i]>>)])
              /\ \A svc \in Range(Services(rec).keys) :
                   \A f \in Range(Services(rec).val[svc].keys) \cap Range(WidgetFields(page)) :
                     session_state'[SlotKey(svc, f)] = SlotOf(Services(rec).val[svc], f) ]_vars

\* a record with the date "not-a-date" was loaded over a date the user chose
C9_Witness ==
  /\ Rehydrated /\ loaded = RecBadDate
  /\ session_state["release_date"] = PyDate(2024, 2, 29)
  /\ Services(form_data).keys = <<"Billing">>

\* the documented default of a field's slot
SlotDefault(f) ==
  CASE f = "config_only" -> PyBool(FALSE)
    [] f \in {"risk_level", "benefit_level"} -> PyStr(<<"Low">>)
    [] OTHER -> PyStr(<<>>)

\* the documented default of a field of form_data
FieldDefault(f) == IF f \in LinkFields THEN PyList(<<>>) ELSE SlotDefault(f)

\* C10: unpacking a record whose service entries lack fields is no error and
\* sets the slot of each missing field of the page to its default; the form
\* then shows false, "Low", empty text and empty link lists for them.
C10_DefaultOnAbsence ==
  [][ /\ Unpacking
           => /\ pc' = "clear" /\ messages' = messages
              /\ \A svc \in Range(Services(session_state["pending_load"]).keys) :
                   \A f \in Range(WidgetFields(page))
                            \ Range(Services(session_state["pending_load"]).val[svc].keys) :
                     session_state'[SlotKey(svc, f)] = SlotDefault(f)
      /\ Rehydrated
           => \A svc \in Range(Services(loaded).keys) :
                \A f \in Range(WidgetFields(page)) \ Range(Services(loaded).val[svc].keys) :
                  Services(form_data).val[svc].val[f] = FieldDefault(f) ]_vars

\* a record whose service entry holds no field at all was loaded and shown
C10_Witness ==
  /\ Rehydrated /\ page = "generator" /\ loaded = RecBare
  /\ Services(form_data).val["Billing"].val["version"] = PyStr(<<>>)

\* ------------------------------------------------------------------------
\* Properties of the Collator
\* ------------------------------------------------------------------------

NotEmpty(l) == l # <<>>

\* the lines of a text, trimmed, without the blank ones
NonBlankLines(raw) ==
  SelectSeq([i \in DOMAIN splitlines(raw) |-> strip(splitlines(raw)[i])], NotEmpty)

DecodesOk(l) == Tabulated(l).ok

\* the number a notice of the kind reports (0 when there is none)
Counted(kind, ns) ==
  IF \E x \in ns : x.kind = kind THEN (CHOOSE x \in ns : x.kind = kind).n ELSE 0

\* C6: "Add to Consolidator" on a text that is not blank leaves the
\* collection as it was, followed by one entry per non-blank line that
\* decodes, in line order; the success count is the number of these lines and
\* the failure count the number of the other non-blank lines.
C6_Ingest ==
  [][ (notices' # {} /\ strip(input_b64_sidebar) # <<>>)
        => LET lines == NonBlankLines(input_b64_sidebar)
               good == SelectSeq(lines, DecodesOk)
               n == Len(release_notes)
           IN /\ Len(release_notes') = n + Len(good)
              /\ SubSeq(release_notes', 1, n) = release_notes
              /\ \A i \in DOMAIN good : release_notes'[n + i].data = Tabulated(good[i]).v
              /\ Counted("success", notices') = Len(good)
              /\ Counted("error", notices') = Len(lines) - Len(good) ]_vars

\* two lines were added to a collection that held one, and one line failed
C6_Witness ==
  /\ notices = {[kind |-> "success", n |-> 2], [kind |-> "error", n |-> 1]}
  /\ Len(release_notes) = 3

Ids(notes) == { notes[i].id : i \in DOMAIN notes }

\* C7: a click on a card's remove button removes exactly the entry with
\* that identifier and leaves the others as they were, in order; removing an
\* identifier no entry has changes nothing, so removing twice is removing
\* once.
C7_Remove ==
  [][ /\ note_id' # 0
           => \E i \in DOMAIN release_notes :
                /\ release_notes[i].id = note_id'
                /\ release_notes' = SubSeq(release_notes, 1, i - 1)
                                    \o SubSeq(release_notes, i + 1, Len(release_notes))
                /\ remove(release_notes', note_id') = release_notes'
      /\ \A id \in 1..(MaxIds + 1) :
           /\ id \notin Ids(release_notes) => remove(release_notes, id) = release_notes
           /\ remove(remove(release_notes, id), id) = remove(release_notes, id) ]_vars

\* the second of three entries was removed
C7_Witness ==
  note_id = 2 /\ Len(release_notes) = 2
    /\ release_notes[1].id = 1 /\ release_notes[2].id = 3

\* what the lines a user may paste decode to
LineValues == { Base64Json(strip(l)).v : l \in { l \in LineTexts : Base64Json(strip(l)).ok } }

\* C8: the identifiers of the entries are pairwise distinct, and an entry is
\* an identifier and the data a line decoded to, which holds no identifier.
C8_FreshIds ==
  /\ \A i, j \in DOMAIN release_notes :
       i # j => release_notes[i].id # release_notes[j].id
  /\ \A i \in DOMAIN release_notes :
       /\ DOMAIN release_notes[i] = {"id", "data"}
       /\ release_notes[i].data \in LineValues

\* the same text was added twice: two entries with the same data
C8_Witness ==
  \E i, j \in DOMAIN release_notes :
    /\ i < j
    /\ release_notes[i].data = release_notes[j].data
    /\ IsDict(release_notes[i].data)
    /\ release_notes[i].id # release_notes[j].id

\* ------------------------------------------------------------------------
\* Services that are not configured
\* ------------------------------------------------------------------------

\* "Add to Consolidator" on the exported text of a record of a service that
\* is not configured, for an empty collection and for one that holds a note:
\* the record is appended, a success is reported, its card is drawn and
\* lists the service
CollatorTolerates ==
  \A notes \in { <<>>, <<NewNote(1, RecSpec)>> } :
    /\ on_add_click(notes, Len(notes), Portable(RecLegacy)).notes
         = Append(notes, [id |-> Len(notes) + 1, data |-> RecLegacy])
    /\ on_add_click(notes, Len(notes), Portable(RecLegacy)).notices
         = {[kind |-> "success", n |-> 1]}
    /\ Len(notes) + 1
         \in RemoveButtons(on_add_click(notes, Len(notes), Portable(RecLegacy)).notes)
    /\ service_names(RecLegacy) = <<"Legacy">>

\* C11: a record of a service that is not configured is not rejected: the
\* Collator adds it and draws its card; "Load from base64" sets pending_load
\* and reruns without an error, and the rehydration block of the rerun ends
\* without an error, with the record's services in selected_services and
\* their fields in the slots.
C11_Tolerated ==
  [][ /\ CollatorTolerates
      /\ (pc = "export" /\ clicked = "load" /\ PastedDecodes
            /\ IsRecord(Tabulated(session_state["input_b64"].v).v)
            /\ ~Configured(Tabulated(session_state["input_b64"].v).v))
           => /\ Has(session_state', "pending_load")
              /\ session_state'["pending_load"] = Tabulated(session_state["input_b64"].v).v
              /\ pc' = "rehydrate"
              /\ messages' = {}
      /\ (Unpacking /\ ~Configured(session_state["pending_load"]))
           => /\ pc' = "clear"
              /\ messages' = messages
              /\ session_state'["selected_services"]
                   = PyList([i \in DOMAIN Services(session_state["pending_load"]).keys |->
                               PyStr(<<Services(session_state["pending_load"]).keys[i]>>)])
              /\ \A svc \in Range(Services(session_state["pending_load"]).keys) :
                   \A f \in Range(Services(session_state["pending_load"]).val[svc].keys)
                            \cap Range(WidgetFields(page)) :
                     session_state'[SlotKey(svc, f)]
                       = SlotOf(Services(session_state["pending_load"]).val[svc], f) ]_vars

\* a record of the service "Legacy" was loaded, and the form shows it
C11_Witness ==
  Rehydrated /\ loaded = RecLegacy /\ Services(form_data).keys = <<"Legacy">>

\* ------------------------------------------------------------------------
\* _parse_links on its own
\* ------------------------------------------------------------------------

LinkChars == {SP, NL, "a", "b"}

\* the texts of at most MaxText characters
LinkTexts == UNION { [1..n -> LinkChars] : n \in 0..MaxText }

LinkInit ==
  /\ FormInit
  /\ CollInit
  /\ link_text \in LinkTexts
  /\ link_items = PyNone

\* _parse_links(text), as form_data takes it
ParseLinks ==
  /\ link_items = PyNone
  /\ link_items' = PyList([i \in DOMAIN parse_links(link_text) |->
                             PyStr(parse_links(link_text)[i])])
  /\ UNCHANGED <<link_text, formVars, collVars>>

\* "\n".join(links): the text the rehydration block puts in the slot
RejoinLinks ==
  /\ link_items # PyNone
  /\ link_text' = JoinedLinks(DictOf(<< <<"pr_links", link_items>> >>), "pr_links").v
  /\ link_items' = PyNone
  /\ UNCHANGED <<formVars, collVars>>

LinkNext ==
  \/ ParseLinks
  \/ RejoinLinks

\* _parse_links applied to any text, and to its own output joined again
LinkSpec == LinkInit /\ [][LinkNext]_vars

\* the items of a list of strings
ItemsOf(list) == [i \in DOMAIN list.v |-> list.v[i].v]

\* the indices of the lines that are not blank
InkLines(lines) == { i \in DOMAIN lines : \E k \in DOMAIN lines[i] : ~IsSpace(lines[i][k]) }

\* the k-th smallest element of a set of numbers
Kth(S, k) == CHOOSE i \in S : Cardinality({ j \in S : j <= i }) = k

\* C12: parsing the items of parse_links(t), joined by newlines, gives the
\* same items; every item is non-blank and has no whitespace at either end;
\* the items are the non-blank lines of t, trimmed, in the order of t.
C12_IdempotentLinks ==
  link_items # PyNone
    => /\ parse_links(join(NL, ItemsOf(link_items))) = ItemsOf(link_items)
       /\ \A i \in DOMAIN ItemsOf(link_items) :
            /\ ItemsOf(link_items)[i] # <<>>
            /\ ~IsSpace(ItemsOf(link_items)[i][1])
            /\ ~IsSpace(ItemsOf(link_items)[i][Len(ItemsOf(link_items)[i])])
       /\ Len(ItemsOf(link_items)) = Cardinality(InkLines(splitlines(link_text)))
       /\ \A k \in DOMAIN ItemsOf(link_items) :
            ItemsOf(link_items)[k]
              = strip(splitlines(link_text)[Kth(InkLines(splitlines(link_text)), k)])

\* a text with a padded line and a blank line was parsed to two items
C12_Witness ==
  /\ link_text = <<SP, "b", NL, NL>> \o <<"a">>
  /\ link_items = PyList(<< PyStr(<<"b">>), PyStr(<<"a">>) >>)


\* ------------------------------------------------------------------------
\* The list object behind the collection
\* ------------------------------------------------------------------------

\* the slot holds another list object than before the step, and the list
\* that it held is as it was
Replaced == notes_list' # notes_list /\ held' = release_notes

\* the slot holds the list object it held, which has notes added at its end
AppendedInPlace ==
  /\ notes_list' = notes_list
  /\ held' = release_notes'
  /\ SubSeq(release_notes', 1, Len(release_notes)) = release_notes

\* C13 as stated: every mutation of the collection (ingest, remove, clear)
\* installs a new list in session state and leaves the list that was held
\* as it was, so that a reference taken before the mutation is unaffected.
C13_AsStated == [][release_notes' # release_notes => Replaced]_vars

\* C13, amended: remove and clear install a new list and leave the one that
\* was held as it was; an ingest appends to the held list in place, and a
\* reference taken before it shows the added notes.
C13_ReplaceOrAppend ==
  [][ /\ notes_list' # notes_list => held' = release_notes
      /\ Len(release_notes') < Len(release_notes) => Replaced
      /\ note_id' # 0 => Replaced
      /\ Len(release_notes') > Len(release_notes) => AppendedInPlace
      /\ release_notes' # release_notes
           => Len(release_notes') # Len(release_notes) ]_vars

\* a card of three was removed: the slot holds a list of two, and the list
\* of three is as it was
C13_Witness ==
  /\ note_id # 0
  /\ Len(held) = 3 /\ Len(release_notes) = 2
  /\ note_id \in Ids(held) /\ note_id \notin Ids(release_notes)


\* ------------------------------------------------------------------------
\* A pending load is spent by the run that unpacks it
\* ------------------------------------------------------------------------

\* every form slot of ss is in the next state with the value it has
SlotsKept(ss) ==
  \A k \in DOMAIN FormSlots(ss) : Has(session_state', k) /\ session_state'[k] = ss[k]

\* C14: the run that unpacks pending_load removes it from session state; no
\* run is waiting for the user with pending_load set, and pending_load comes
\* back only by a "Load from base64" of a text that decodes; a run that finds
\* no pending_load unpacks nothing, and (the Clear Form click apart) none of
\* its steps changes a form slot that holds a value.
C14_AppliedOnce ==
  [][ /\ (pc = "rehydrate" /\ Has(session_state, "pending_load"))
           => /\ ~Has(session_state', "pending_load")
              /\ loaded' = session_state["pending_load"]
      /\ (pc = "rehydrate" /\ ~Has(session_state, "pending_load"))
           => /\ session_state' = session_state
              /\ loaded' = PyNone
              /\ pc' = "clear"
      /\ pc = "idle" => ~Has(session_state, "pending_load")
      /\ (~Has(session_state, "pending_load") /\ Has(session_state', "pending_load"))
           => clicked = "load" /\ PastedDecodes
      /\ (pc \notin {"idle", "rehydrate"} /\ clicked # "clear")
           => /\ loaded' \in {loaded, PyNone}
              /\ SlotsKept(session_state) ]_vars

\* the specification's example was loaded, then the user chose another
\* contact: the run after the edit has unpacked nothing, the form has the
\* user's contact and the record's other values
C14_Witness ==
  /\ Completed /\ loaded = PyNone /\ events = 2
  /\ ~Has(session_state, "pending_load")
  /\ session_state["contact"] = W("Bob")
  /\ session_state["release_date"] = PyDate(2024, 3, 1)
  /\ session_state["selected_services"] = PyList(<<W("Billing")>>)
  /\ session_state[SlotKey("Billing", "pr_links")] = PyStr(<<"a", NL, "b">>)
  /\ form_data.val["contact"] = W("Bob")


\* ------------------------------------------------------------------------
\* What the unpacking of a record leaves alone
\* ------------------------------------------------------------------------

\* the services of a value that is a dict: {} when it has no "services"
ServicesOf(rec) == DictGet(rec, "services", EmptyDict)

\* the slots a loaded value names on page pg: release_date and contact when
\* it has them, selected_services, and the field slots of its services
Named(rec, pg) ==
  IF ~IsDict(rec) THEN {}
  ELSE { k \in {"release_date", "contact"} : HasKey(rec, k) }
       \cup {"selected_services"}
       \cup IF IsDict(ServicesOf(rec))
              THEN { SlotKey(svc, f) : svc \in Range(ServicesOf(rec).keys),
                                        f \in HydratedFields(pg) }
              ELSE {}

\* C15: the unpacking of a loaded value changes no slot but those it names:
\* release_date and contact stay as they were when it has no such key, and
\* so does every field slot of a service it does not hold; selected_services
\* becomes the list of its service keys, the empty list when it has no
\* "services".
C15_WritesNamedOnly ==
  [][ (pc = "rehydrate" /\ Has(session_state, "pending_load"))
        => LET rec == session_state["pending_load"]
           IN /\ \A k \in (DOMAIN session_state \cup DOMAIN session_state')
                            \ (Named(rec, page) \cup {"pending_load"}) :
                    /\ Has(session_state, k) /\ Has(session_state', k)
                    /\ session_state'[k] = session_state[k]
              /\ (IsDict(rec) /\ IsDict(ServicesOf(rec)))
                    => /\ Has(session_state', "selected_services")
                       /\ Len(session_state'["selected_services"].v)
                            = Len(ServicesOf(rec).keys)
                       /\ \A i \in DOMAIN ServicesOf(rec).keys :
                            session_state'["selected_services"].v[i]
                              = PyStr(<<ServicesOf(rec).keys[i]>>)
              /\ (IsDict(rec) /\ ~HasKey(rec, "services"))
                    => session_state'["selected_services"] = PyList(<<>>) ]_vars

\* a record of two services by Bob was loaded, then one that has nothing
\* but the service Search: the contact, the date and the slots of Billing
\* are those of the first, the selection and the slots of Search those of
\* the second
C15_Witness ==
  /\ Completed /\ loaded = RecServicesOnly
  /\ session_state["contact"] = W("Bob")
  /\ session_state["release_date"] = PyDate(2024, 3, 1)
  /\ session_state["selected_services"] = PyList(<<W("Search")>>)
  /\ session_state[SlotKey("Search", "risk_level")] = W("High")
  /\ session_state[SlotKey("Billing", "risk_level")] = W("Medium")

====
